---- MODULE Spec2Model ----
(***************************************************************************)
(* A model of cloud66-samples/acme: three processes (Seller, Buyer,        *)
(* Dashboard) that share two Redis lists, acme:queue and acme:histogram.   *)
(* Every Redis command is one atomic step; each command may fail (the      *)
(* client returns an error and the list is left as it was).                *)
(***************************************************************************)
EXTENDS Integers, Sequences, FiniteSets, TLC

\* ------------------------------------------------------------------ bounds
MaxSellTicks == 2
MaxBuyTicks == 2
MaxGenTicks == 2
MaxReads == 2
\* prices are held in units of 1/Scale: a seed is SeedBase plus a fraction
Scale == 2

\* -------------------------------------------------------- program constants
\* rand.Intn(10) of sell
CountRange == 10
\* the stop index of LTrim(histogram, 0, 100)
TrimStop == 100

\* MaxDiv and SeedBase of the Dashboard
MaxDiv == 5
SeedBase == 200
\* min := 99999999.00 of getLow
LowStart == 99999999
\* quit := make(chan os.Signal, 1)
QuitCap == 1

Signals == {"INT", "TERM"}

VARIABLES
    queue,      \* the list acme:queue, head (Redis index 0) first
    hist,       \* the list acme:histogram, head first
    pushes,     \* successful LPush commands on acme:queue so far
    pops,       \* LPop commands on acme:queue that returned an entry so far
    sVariant,   \* which seller binary runs: "simple" or "histogram"
    sPc,        \* Seller: "select", "lpush", "push", "hpush", "trim", "exited"
    sCount,     \* Seller: count of the running (or last) sell()
    sI,         \* Seller: loop index i of sell()
    sErr,       \* Seller: whether the last sell() returned an error
    sTicks,     \* Seller: ticks taken so far
    sBase,      \* Seller: value of pushes when the running (or last) tick began
    sRec,       \* Seller: values this tick pushed onto acme:histogram
    sGot,       \* Seller: whether the OS has sent it a signal
    sExit,      \* Seller: exit status, -1 while it runs
    bPc,        \* Buyer: "select", "lpop", "exited"
    bSaid,      \* Buyer: what its last tick printed after "Buying..."
    bTicks,     \* Buyer: ticks taken so far
    bGot,       \* Buyer: whether the OS has sent it a signal
    bExit,      \* Buyer: exit status, -1 while it runs
    resp,       \* the Dashboard's last HTTP response
    reads,      \* GET /histogram requests served so far
    xrid,       \* the X-Request-Id header of the last HTTP response
    logged,     \* the request id in the last line of the access log
    dPc,        \* Dashboard main: "ready", "listen", "serving", "waitdone", "ended"
    hPc,        \* Dashboard shutdown goroutine: "wait", "clear", "shutdown", "drain", "end"
    quit,       \* signals held by the channel quit
    healthy,    \* the health flag
    srv,        \* the http.Server: "new", "listening", "draining", "closed"
    done,       \* whether the channel done is closed
    dExit,      \* Dashboard: exit status, -1 while it runs
    dExitBy,    \* Dashboard: what ended it
    dGot,       \* Dashboard: the signals the OS has sent it
    seed,       \* generator: the seed, in units of 1/Scale
    gTicks,     \* generator: ticks taken so far
    gErr,       \* generator: whether the last tick's LPush failed
    dp,         \* generator: the last datapoint
    gPrev       \* generator: the seed the last datapoint was created from

storeVars == <<queue, hist, pushes, pops>>
sellerVars == <<sVariant, sPc, sCount, sI, sErr, sTicks, sBase, sRec, sGot, sExit>>
buyerVars == <<bPc, bSaid, bTicks, bGot, bExit>>
lifeVars == <<dPc, hPc, quit, healthy, srv, done, dExit, dExitBy, dGot>>
genVars == <<seed, gTicks, gErr, dp, gPrev>>
httpVars == <<resp, reads, xrid, logged>>
vars == <<storeVars, sellerVars, buyerVars, httpVars, lifeVars, genVars>>

\* ------------------------------------------------------------ Redis lists
LPush(list, v) == <<v>> \o list

LPop(list) == Tail(list)

RPop(list) == SubSeq(list, 1, Len(list) - 1)

LLen(list) == Len(list)

\* LTRIM taking stop as a count of elements to drop after, one too many kept
LTrimKeepsOneMore(list, start, stop) ==
    SubSeq(list, start + 1, IF stop + 2 < Len(list) THEN stop + 2 ELSE Len(list))

\* LTRIM with non-negative indices: keep the elements start..stop, counted from 0
LTrim(list, start, stop) ==
    SubSeq(list, start + 1, IF stop + 1 < Len(list) THEN stop + 1 ELSE Len(list))

\* -------------------------------------------------------- stored values
\* What a list entry holds is text. An integer argument is stored as its
\* decimal text, which read as JSON is a number; json.Marshal of a
\* []float64 gives a JSON array; RPop on nothing gives the empty text.
Itoa(n) == [kind |-> "number", val |-> <<n>>]

Marshal(day) == [kind |-> "array", val |-> day]

EmptyText == [kind |-> "empty", val |-> <<>>]

\* json.Unmarshal(text, &day) with day a nil []float64: only a JSON array of
\* numbers is accepted; on an error day stays nil
Unmarshal(text) ==
    IF text.kind = "array"
    THEN [err |-> FALSE, null |-> FALSE, day |-> text.val]
    ELSE [err |-> TRUE, null |-> TRUE, day |-> <<>>]

\* ------------------------------------------------------------------ Seller
\* case <-ticker.C of the Seller's select: sell() starts and, in the
\* histogram variant, draws count := rand.Intn(10), here n
SellerTick(n) ==
    /\ sPc = "select"
    /\ sTicks < MaxSellTicks
    /\ sTicks' = sTicks + 1
    /\ sBase' = pushes
    /\ sRec' = <<>>
    /\ sI' = 0
    /\ sErr' = FALSE
    /\ IF sVariant = "histogram"
       THEN /\ sCount' = n
            /\ sPc' = IF 0 < n THEN "push" ELSE "hpush"
       ELSE /\ sCount' = sCount
            /\ sPc' = "lpush"
    /\ UNCHANGED <<sVariant, sGot, sExit>>
    /\ UNCHANGED <<storeVars, buyerVars, httpVars, lifeVars, genVars>>

\* sell() of the simple variant: one LPush, its error returned
sellSimple(ok) ==
    /\ sPc = "lpush"
    /\ IF ok
       THEN /\ queue' = LPush(queue, 1)
            /\ pushes' = pushes + 1
       ELSE UNCHANGED <<queue, pushes>>
    /\ sErr' = ~ok
    /\ sPc' = "select"
    /\ UNCHANGED <<sVariant, sCount, sI, sTicks, sBase, sRec, sGot, sExit>>
    /\ UNCHANGED <<hist, pops, buyerVars, httpVars, lifeVars, genVars>>

\* sell() going on to the record and the trim after a failed queue push
sellPushGoesOn(ok) ==
    /\ sPc = "push"
    /\ IF ok
       THEN /\ queue' = LPush(queue, 1)
            /\ pushes' = pushes + 1
            /\ sI' = sI + 1
            /\ sPc' = IF sI + 1 < sCount THEN "push" ELSE "hpush"
            /\ sErr' = sErr
       ELSE /\ UNCHANGED <<queue, pushes, sI>>
            /\ sErr' = TRUE
            /\ sPc' = "hpush"
    /\ UNCHANGED <<sVariant, sCount, sTicks, sBase, sRec, sGot, sExit>>
    /\ UNCHANGED <<hist, pops, buyerVars, httpVars, lifeVars, genVars>>

\* one iteration of the loop of sell(): LPush(keyName, 1), return on error
sellPush(ok) ==
    /\ sPc = "push"
    /\ IF ok
       THEN /\ queue' = LPush(queue, 1)
            /\ pushes' = pushes + 1
            /\ sI' = sI + 1
            /\ sPc' = IF sI + 1 < sCount THEN "push" ELSE "hpush"
            /\ sErr' = sErr
       ELSE /\ UNCHANGED <<queue, pushes, sI>>
            /\ sErr' = TRUE
            /\ sPc' = "select"
    /\ UNCHANGED <<sVariant, sCount, sTicks, sBase, sRec, sGot, sExit>>
    /\ UNCHANGED <<hist, pops, buyerVars, httpVars, lifeVars, genVars>>

\* sell() recording the count only when something was sold
sellHistPushSkipZero(ok) ==
    /\ sPc = "hpush"
    /\ IF ok
       THEN /\ hist' = IF 0 < sCount THEN LPush(hist, Itoa(sCount)) ELSE hist
            /\ sRec' = IF 0 < sCount THEN Append(sRec, sCount) ELSE sRec
            /\ sPc' = "trim"
            /\ sErr' = sErr
       ELSE /\ UNCHANGED <<hist, sRec>>
            /\ sErr' = TRUE
            /\ sPc' = "select"
    /\ UNCHANGED <<sVariant, sCount, sI, sTicks, sBase, sGot, sExit>>
    /\ UNCHANGED <<queue, pushes, pops, buyerVars, httpVars, lifeVars, genVars>>

\* LPush(histogram, count) of sell(), return on error
sellHistPush(ok) ==
    /\ sPc = "hpush"
    /\ IF ok
       THEN /\ hist' = LPush(hist, Itoa(sCount))
            /\ sRec' = Append(sRec, sCount)
            /\ sPc' = "trim"
            /\ sErr' = sErr
       ELSE /\ UNCHANGED <<hist, sRec>>
            /\ sErr' = TRUE
            /\ sPc' = "select"
    /\ UNCHANGED <<sVariant, sCount, sI, sTicks, sBase, sGot, sExit>>
    /\ UNCHANGED <<queue, pushes, pops, buyerVars, httpVars, lifeVars, genVars>>

\* LTrim(histogram, 0, 100) of sell(); sell() returns its error, or nil
sellTrim(ok) ==
    /\ sPc = "trim"
    /\ hist' = IF ok THEN LTrim(hist, 0, TrimStop) ELSE hist
    /\ sErr' = ~ok
    /\ sPc' = "select"
    /\ UNCHANGED <<sVariant, sCount, sI, sTicks, sBase, sRec, sGot, sExit>>
    /\ UNCHANGED <<queue, pushes, pops, buyerVars, httpVars, lifeVars, genVars>>

\* The OS sends the Seller a signal. cancel is an unbuffered channel and
\* signal.Notify never blocks: the signal is taken only when main waits in
\* its select (ticker.Stop, os.Exit(1)); otherwise it is dropped.
SellerSignal(sig) ==
    /\ sExit = -1
    /\ sGot' = TRUE
    /\ IF sPc = "select"
       THEN /\ sPc' = "exited"
            /\ sExit' = 1
       ELSE UNCHANGED <<sPc, sExit>>
    /\ UNCHANGED <<sVariant, sCount, sI, sErr, sTicks, sBase, sRec>>
    /\ UNCHANGED <<storeVars, buyerVars, httpVars, lifeVars, genVars>>

\* ------------------------------------------------------------------- Buyer
\* case <-ticker.C of the Buyer's select: buy() starts
BuyerTick ==
    /\ bPc = "select"
    /\ bTicks < MaxBuyTicks
    /\ bTicks' = bTicks + 1
    /\ bPc' = "lpop"
    /\ UNCHANGED <<bSaid, bGot, bExit>>
    /\ UNCHANGED <<storeVars, sellerVars, httpVars, lifeVars, genVars>>

\* buy() with an empty queue treated as fatal
buyFatalOnEmpty(ok) ==
    /\ bPc = "lpop"
    /\ IF ok /\ queue # <<>>
       THEN /\ queue' = LPop(queue)
            /\ pops' = pops + 1
            /\ bSaid' = "1"
            /\ bPc' = "select"
            /\ bExit' = bExit
       ELSE /\ UNCHANGED <<queue, pops>>
            /\ bSaid' = "Nothing to buy"
            /\ bPc' = "exited"
            /\ bExit' = 1
    /\ UNCHANGED <<bTicks, bGot>>
    /\ UNCHANGED <<hist, pushes, sellerVars, httpVars, lifeVars, genVars>>

\* buy() popping the key of the histogram
buyFromHistogram(ok) ==
    /\ bPc = "lpop"
    /\ IF ok /\ hist # <<>>
       THEN /\ hist' = LPop(hist)
            /\ pops' = pops + 1
            /\ bSaid' = "1"
       ELSE /\ UNCHANGED <<hist, pops>>
            /\ bSaid' = "Nothing to buy"
    /\ bPc' = "select"
    /\ UNCHANGED <<bTicks, bGot, bExit>>
    /\ UNCHANGED <<queue, pushes, sellerVars, httpVars, lifeVars, genVars>>

\* buy(): LPop(keyName); redis.Nil on an empty list, or a failure, is an
\* error, and main prints "Nothing to buy" for any error
buy(ok) ==
    /\ bPc = "lpop"
    /\ IF ok /\ queue # <<>>
       THEN /\ queue' = LPop(queue)
            /\ pops' = pops + 1
            /\ bSaid' = "1"
       ELSE /\ UNCHANGED <<queue, pops>>
            /\ bSaid' = "Nothing to buy"
    /\ bPc' = "select"
    /\ UNCHANGED <<bTicks, bGot, bExit>>
    /\ UNCHANGED <<hist, pushes, sellerVars, httpVars, lifeVars, genVars>>

\* The OS sends the Buyer a signal: as for the Seller
BuyerSignal(sig) ==
    /\ bExit = -1
    /\ bGot' = TRUE
    /\ IF bPc = "select"
       THEN /\ bPc' = "exited"
            /\ bExit' = 1
       ELSE UNCHANGED <<bPc, bExit>>
    /\ UNCHANGED <<bSaid, bTicks>>
    /\ UNCHANGED <<storeVars, sellerVars, httpVars, lifeVars, genVars>>

\* --------------------------------------------------------- Dashboard: /size
\* fetch() reading the other list
fetchHistogram(ok) == IF ok THEN LLen(hist) ELSE 0

\* fetch(): LLen(keyName), 0 with the error when the read fails
fetch(ok) == IF ok THEN LLen(queue) ELSE 0

\* GET /size: status 200, then { "size": <fetch()> }
sizeRoute(ok) ==
    /\ dExit = -1
    /\ resp' = [route |-> "/size", status |-> 200, body |-> fetch(ok),
                null |-> FALSE, day |-> <<>>]
    /\ UNCHANGED <<storeVars, sellerVars, buyerVars, reads, lifeVars, genVars>>

\* ---------------------------------------------------- Dashboard: /histogram
\* GET /histogram popping at the end the writers push at
histogramRoutePopsHead(ok) ==
    /\ dExit = -1
    /\ reads < MaxReads
    /\ reads' = reads + 1
    /\ LET popped == ok /\ hist # <<>>
           ticker == IF popped THEN Head(hist) ELSE EmptyText
           got == Unmarshal(ticker)
       IN /\ hist' = IF popped THEN LPop(hist) ELSE hist
          /\ resp' = [route |-> "/histogram", status |-> 200, body |-> 0,
                      null |-> got.null, day |-> got.day]
    /\ UNCHANGED <<queue, pushes, pops, sellerVars, buyerVars, lifeVars, genVars>>

\* GET /histogram reading the tail entry and leaving it in the list
histogramRoutePeek(ok) ==
    /\ dExit = -1
    /\ reads < MaxReads
    /\ reads' = reads + 1
    /\ LET popped == ok /\ hist # <<>>
           ticker == IF popped THEN hist[Len(hist)] ELSE EmptyText
           got == Unmarshal(ticker)
       IN /\ hist' = hist
          /\ resp' = [route |-> "/histogram", status |-> 200, body |-> 0,
                      null |-> got.null, day |-> got.day]
    /\ UNCHANGED <<queue, pushes, pops, sellerVars, buyerVars, lifeVars, genVars>>

\* GET /histogram: status 200, RPop(histogram) with its error dropped, the
\* text unmarshalled and day encoded (null when it is nil)
histogramRoute(ok) ==
    /\ dExit = -1
    /\ reads < MaxReads
    /\ reads' = reads + 1
    /\ LET popped == ok /\ hist # <<>>
           ticker == IF popped THEN hist[Len(hist)] ELSE EmptyText
           got == Unmarshal(ticker)
       IN /\ hist' = IF popped THEN RPop(hist) ELSE hist
          /\ resp' = [route |-> "/histogram", status |-> 200, body |-> 0,
                      null |-> got.null, day |-> got.day]
    /\ UNCHANGED <<queue, pushes, pops, sellerVars, buyerVars, lifeVars, genVars>>

\* ------------------------------------------------------ Dashboard: /healthz
\* GET /healthz: 204 when the flag is 1, 503 otherwise. A request is served
\* while the listener accepts, or is finished while the server drains.
healthz ==
    /\ dExit = -1
    /\ srv \in {"listening", "draining"}
    /\ resp' = [route |-> "/healthz", status |-> IF healthy = 1 THEN 204 ELSE 503,
                body |-> 0, null |-> FALSE, day |-> <<>>]
    /\ UNCHANGED <<storeVars, sellerVars, buyerVars, reads, lifeVars, genVars>>

\* ------------------------------------------- Dashboard: the HTTP handler
\* router.Handle("/", http.FileServer(...)): every other path; the file is
\* there or not
fileServer(ok) ==
    /\ dExit = -1
    /\ resp' = [route |-> "/", status |-> IF ok THEN 200 ELSE 404,
                body |-> 0, null |-> FALSE, day |-> <<>>]
    /\ UNCHANGED <<storeVars, sellerVars, buyerVars, reads, lifeVars, genVars>>

\* the ServeMux of main
router(path, ok) ==
    \/ path = "/size" /\ sizeRoute(ok)
    \/ path = "/histogram" /\ histogramRoute(ok)
    \/ path = "/healthz" /\ healthz
    \/ path \notin {"/size", "/histogram", "/healthz"} /\ fileServer(ok)

\* nextRequestID: fmt.Sprintf("%d", time.Now().UnixNano())
nextRequestID(now) == ToString(now)

\* a context.Context as the values it holds by key; requestIDKey is a key
Background == [k \in {} |-> ""]

WithValue(ctx, k, v) == [j \in DOMAIN ctx \cup {k} |-> IF j = k THEN v ELSE ctx[j]]

\* tracing handing the request on as it came, without the new context
tracingDropsContext(inId, now) ==
    LET requestID == IF inId = "" THEN nextRequestID(now) ELSE inId
    IN [header |-> requestID, ctx |-> Background]

\* tracing: the inbound X-Request-Id, or a generated one when it is empty;
\* put into the context of the request handed on, and set on the response
tracing(inId, now) ==
    LET requestID == IF inId = "" THEN nextRequestID(now) ELSE inId
    IN [header |-> requestID, ctx |-> WithValue(Background, "requestIDKey", requestID)]

\* logging: the id written by the deferred logger.Println, read from the
\* context of the request it was handed; "unknown" when it has none
logging(ctx) ==
    IF "requestIDKey" \in DOMAIN ctx THEN ctx["requestIDKey"] ELSE "unknown"

\* server.Handler = tracing(nextRequestID)(logging(logger)(router)) serving
\* one request for path whose X-Request-Id header is inId ("" when it has
\* none), at time now
ServeHTTP(path, inId, now, ok) ==
    /\ LET t == tracing(inId, now)
       IN /\ xrid' = t.header
          /\ logged' = logging(t.ctx)
    /\ router(path, ok)

\* ------------------------------------------- Dashboard: synthetic series
\* One draw of getDir() and getDiv(): <<dir, div>>
Draws == {1, -1} \X (0 .. MaxDiv - 1)

getValue(s, r) == s + (r[1] * r[2]) * Scale

Max2(a, b) == IF a < b THEN b ELSE a

Min2(a, b) == IF b < a THEN b ELSE a

\* getHigh leaving close out of day
getHighNoClose(open, close, r) ==
    Max2(Max2(0, open), getValue(open, r))

\* max := 0.0, then math.Max over open, close and getValue(open)
getHigh(open, close, r) ==
    Max2(Max2(Max2(0, open), close), getValue(open, r))

\* min := 99999999.00, then math.Min over open, close and getValue(open)
getLow(open, close, r) ==
    Min2(Min2(Min2(LowStart * Scale, open), close), getValue(open, r))

\* createDatapoint(seed) at time t: r1..r4 are the draws of open, close,
\* getHigh and getLow, in the order the code makes them
createDatapoint(s, t, r1, r2, r3, r4) ==
    LET open == getValue(s, r1)
        close == getValue(s, r2)
        high == getHigh(open, close, r3)
        low == getLow(open, close, r4)
    IN [day |-> <<t, open, close, high, low>>, close |-> close]

\* the generator goroutine runs and may take a tick
genReady ==
    /\ dExit = -1
    /\ gTicks < MaxGenTicks

\* a generator tick taking over the new seed only once its push went through
genTickKeepsSeedOnError(r1, r2, r3, r4, ok) ==
    /\ genReady
    /\ gTicks' = gTicks + 1
    /\ LET made == createDatapoint(seed, gTicks + 1, r1, r2, r3, r4)
       IN /\ dp' = made.day
          /\ seed' = IF ok THEN made.close ELSE seed
          /\ hist' = IF ok THEN LPush(hist, Marshal(made.day)) ELSE hist
    /\ gPrev' = seed
    /\ gErr' = ~ok
    /\ UNCHANGED <<queue, pushes, pops, sellerVars, buyerVars, httpVars, lifeVars>>

\* case <-ticker.C of the generator goroutine: the datapoint is created, the
\* seed becomes its close, its JSON is pushed onto acme:histogram. t is the
\* time in ticker intervals since the goroutine started.
genTick(r1, r2, r3, r4, ok) ==
    /\ genReady
    /\ gTicks' = gTicks + 1
    /\ LET made == createDatapoint(seed, gTicks + 1, r1, r2, r3, r4)
       IN /\ dp' = made.day
          /\ seed' = made.close
          /\ hist' = IF ok THEN LPush(hist, Marshal(made.day)) ELSE hist
    /\ gPrev' = seed
    /\ gErr' = ~ok
    /\ UNCHANGED <<queue, pushes, pops, sellerVars, buyerVars, httpVars, lifeVars>>

\* a tick of the generator whose eight draws come from the set D
generate(D) ==
    /\ genReady
    /\ \E r1, r2, r3, r4 \in D, ok \in BOOLEAN : genTick(r1, r2, r3, r4, ok)

\* case <-quit of the generator goroutine: ticker.Stop, os.Exit(1)
genQuit ==
    /\ dExit = -1
    /\ 0 < quit
    /\ quit' = quit - 1
    /\ dExit' = 1
    /\ dExitBy' = "generator"
    /\ UNCHANGED <<dPc, hPc, healthy, srv, done, dGot>>
    /\ UNCHANGED <<storeVars, sellerVars, buyerVars, httpVars, genVars>>

\* ------------------------------------------------------ Dashboard: lifecycle
\* The OS sends the Dashboard a signal. cancel (Interrupt, SIGTERM) is
\* unbuffered and nothing receives from it: signal.Notify drops what it
\* sends there. quit (Interrupt only) holds one signal; a second is dropped.
DashSignal(sig) ==
    /\ dExit = -1
    /\ dGot' = dGot \cup {sig}
    /\ quit' = IF sig = "INT" /\ quit < QuitCap THEN quit + 1 ELSE quit
    /\ UNCHANGED <<dPc, hPc, healthy, srv, done, dExit, dExitBy>>
    /\ UNCHANGED <<storeVars, sellerVars, buyerVars, httpVars, genVars>>

\* main: atomic.StoreInt32(&healthy, 1)
mainSetHealthy ==
    /\ dExit = -1
    /\ dPc = "ready"
    /\ healthy' = 1
    /\ dPc' = "listen"
    /\ UNCHANGED <<hPc, quit, srv, done, dExit, dExitBy, dGot>>
    /\ UNCHANGED <<storeVars, sellerVars, buyerVars, httpVars, genVars>>

\* main: server.ListenAndServe() starts. After Shutdown it returns
\* ErrServerClosed at once; a listen error is fatal (logger.Fatalf).
mainListen(ok) ==
    /\ dExit = -1
    /\ dPc = "listen"
    /\ IF srv # "new"
       THEN /\ dPc' = "waitdone"
            /\ UNCHANGED <<srv, dExit, dExitBy>>
       ELSE IF ok
            THEN /\ srv' = "listening"
                 /\ dPc' = "serving"
                 /\ UNCHANGED <<dExit, dExitBy>>
            ELSE /\ dExit' = 1
                 /\ dExitBy' = "listen"
                 /\ UNCHANGED <<srv, dPc>>
    /\ UNCHANGED <<hPc, quit, healthy, done, dGot>>
    /\ UNCHANGED <<storeVars, sellerVars, buyerVars, httpVars, genVars>>

\* main: ListenAndServe returns ErrServerClosed once Shutdown has closed
\* the listener
mainServeReturns ==
    /\ dExit = -1
    /\ dPc = "serving"
    /\ srv \in {"draining", "closed"}
    /\ dPc' = "waitdone"
    /\ UNCHANGED <<hPc, quit, healthy, srv, done, dExit, dExitBy, dGot>>
    /\ UNCHANGED <<storeVars, sellerVars, buyerVars, httpVars, genVars>>

\* main: <-done, "Server stopped", main returns
mainEnds ==
    /\ dExit = -1
    /\ dPc = "waitdone"
    /\ done
    /\ dPc' = "ended"
    /\ dExit' = 0
    /\ dExitBy' = "main"
    /\ UNCHANGED <<hPc, quit, healthy, srv, done, dGot>>
    /\ UNCHANGED <<storeVars, sellerVars, buyerVars, httpVars, genVars>>

\* shutdown goroutine: <-quit
shutdownRecv ==
    /\ dExit = -1
    /\ hPc = "wait"
    /\ 0 < quit
    /\ quit' = quit - 1
    /\ hPc' = "clear"
    /\ UNCHANGED <<dPc, healthy, srv, done, dExit, dExitBy, dGot>>
    /\ UNCHANGED <<storeVars, sellerVars, buyerVars, httpVars, genVars>>

\* shutdown goroutine: atomic.StoreInt32(&healthy, 0)
shutdownClear ==
    /\ dExit = -1
    /\ hPc = "clear"
    /\ healthy' = 0
    /\ hPc' = "shutdown"
    /\ UNCHANGED <<dPc, quit, srv, done, dExit, dExitBy, dGot>>
    /\ UNCHANGED <<storeVars, sellerVars, buyerVars, httpVars, genVars>>

\* shutdown goroutine: server.Shutdown(ctx) closes the listener
shutdownBegin ==
    /\ dExit = -1
    /\ hPc = "shutdown"
    /\ srv' = "draining"
    /\ hPc' = "drain"
    /\ UNCHANGED <<dPc, quit, healthy, done, dExit, dExitBy, dGot>>
    /\ UNCHANGED <<storeVars, sellerVars, buyerVars, httpVars, genVars>>

\* shutdown goroutine: server.Shutdown(ctx) returns: nil when the requests
\* in flight have finished, then close(done); an error when the 30 s of
\* ctx are over, then logger.Fatalf
shutdownEnd(ok) ==
    /\ dExit = -1
    /\ hPc = "drain"
    /\ IF ok
       THEN /\ srv' = "closed"
            /\ done' = TRUE
            /\ hPc' = "end"
            /\ UNCHANGED <<dExit, dExitBy>>
       ELSE /\ dExit' = 1
            /\ dExitBy' = "shutdown"
            /\ UNCHANGED <<srv, done, hPc>>
    /\ UNCHANGED <<dPc, quit, healthy, dGot>>
    /\ UNCHANGED <<storeVars, sellerVars, buyerVars, httpVars, genVars>>

\* ---------------------------------------------------------- specifications
NoResp == [route |-> "", status |-> 0, body |-> 0, null |-> FALSE, day |-> <<>>]

InitStore ==
    /\ queue = <<>>
    /\ hist = <<>>
    /\ pushes = 0
    /\ pops = 0

InitSeller ==
    /\ sVariant \in {"simple", "histogram"}
    /\ sPc = "select"
    /\ sCount = 0
    /\ sI = 0
    /\ sErr = FALSE
    /\ sTicks = 0
    /\ sBase = 0
    /\ sRec = <<>>
    /\ sGot = FALSE
    /\ sExit = -1

InitBuyer ==
    /\ bPc = "select"
    /\ bSaid = ""
    /\ bTicks = 0
    /\ bGot = FALSE
    /\ bExit = -1

\* the Dashboard after signal.Notify(quit, os.Interrupt), its two
\* goroutines started; seed := rand.Float64() + SeedBase
InitLife ==
    /\ dPc = "ready"
    /\ hPc = "wait"
    /\ quit = 0
    /\ healthy = 0
    /\ srv = "new"
    /\ done = FALSE
    /\ dExit = -1
    /\ dExitBy = "none"
    /\ dGot = {}
    /\ resp = NoResp
    /\ reads = 0
    /\ xrid = ""
    /\ logged = ""

InitGen ==
    /\ seed \in {SeedBase * Scale + f : f \in 0 .. Scale - 1}
    /\ gTicks = 0
    /\ gErr = FALSE
    /\ dp = <<>>
    /\ gPrev = 0

InitDash ==
    /\ InitLife
    /\ InitGen

Init ==
    /\ InitStore
    /\ InitSeller
    /\ InitBuyer
    /\ InitDash

\* the request where its X-Request-Id does not matter: no header, time 1
NoId == {""}

Instant == {1}

\* the draw made where the series only has to exist: a step of 0
FlatDraws == {<<1, 0>>}

\* what rand.Intn(10) can return
Counts == 0 .. CountRange - 1

\* the Seller alone, with every count
Next ==
    \/ \E n \in Counts : SellerTick(n)
    \/ \E ok \in BOOLEAN : sellSimple(ok)
    \/ \E ok \in BOOLEAN : sellPush(ok)
    \/ \E ok \in BOOLEAN : sellHistPush(ok)
    \/ \E ok \in BOOLEAN : sellTrim(ok)

Spec == Init /\ [][Next]_vars

\* the counts drawn where the Seller runs beside the other processes
SmallCounts == {0, 1, 3}

\* Seller, Buyer and the Dashboard's /size on the queue
NextQueue ==
    \/ \E n \in SmallCounts : SellerTick(n)
    \/ \E ok \in BOOLEAN : sellSimple(ok)
    \/ \E ok \in BOOLEAN : sellPush(ok)
    \/ \E ok \in BOOLEAN : sellHistPush(ok)
    \/ \E ok \in BOOLEAN : sellTrim(ok)
    \/ BuyerTick
    \/ \E ok \in BOOLEAN : buy(ok)
    \/ \E inId \in NoId, now \in Instant, ok \in BOOLEAN : ServeHTTP("/size", inId, now, ok)

SpecQueue == Init /\ [][NextQueue]_vars

\* the counts drawn where the queue is followed through every process
ConserveCounts == {0, 2}

\* Seller and Buyer beside a Dashboard serving /size and /histogram
NextConserve ==
    \/ \E n \in ConserveCounts : SellerTick(n)
    \/ \E ok \in BOOLEAN : sellSimple(ok)
    \/ \E ok \in BOOLEAN : sellPush(ok)
    \/ \E ok \in BOOLEAN : sellHistPush(ok)
    \/ \E ok \in BOOLEAN : sellTrim(ok)
    \/ BuyerTick
    \/ \E ok \in BOOLEAN : buy(ok)
    \/ \E inId \in NoId, now \in Instant, ok \in BOOLEAN : ServeHTTP("/size", inId, now, ok)
    \/ \E inId \in NoId, now \in Instant, ok \in BOOLEAN : ServeHTTP("/histogram", inId, now, ok)

SpecConserve == Init /\ [][NextConserve]_vars

\* Seller and Buyer under signals
NextSignal ==
    \/ \E n \in SmallCounts : SellerTick(n)
    \/ \E ok \in BOOLEAN : sellSimple(ok)
    \/ \E ok \in BOOLEAN : sellPush(ok)
    \/ \E ok \in BOOLEAN : sellHistPush(ok)
    \/ \E ok \in BOOLEAN : sellTrim(ok)
    \/ \E sig \in Signals : SellerSignal(sig)
    \/ BuyerTick
    \/ \E ok \in BOOLEAN : buy(ok)
    \/ \E sig \in Signals : BuyerSignal(sig)

SpecSignal == Init /\ [][NextSignal]_vars


\* the Dashboard from start to end: its three goroutines, signals, /healthz
NextDash ==
    \/ \E sig \in Signals : DashSignal(sig)
    \/ mainSetHealthy
    \/ \E ok \in BOOLEAN : mainListen(ok)
    \/ mainServeReturns
    \/ mainEnds
    \/ shutdownRecv
    \/ shutdownClear
    \/ shutdownBegin
    \/ \E ok \in BOOLEAN : shutdownEnd(ok)
    \/ generate(FlatDraws)
    \/ genQuit
    \/ \E inId \in NoId, now \in Instant : ServeHTTP("/healthz", inId, now, TRUE)

SpecDash == Init /\ [][NextDash]_vars

\* The store is external and outlives the processes: the histogram may hold
\* what earlier Seller ticks left. n zeros are what n ticks of count 0 leave.
Zeros(n) == [i \in 1 .. n |-> Itoa(0)]

InitHist ==
    /\ queue = <<>>
    /\ hist \in {Zeros(n) : n \in {0, TrimStop, TrimStop + 1}}
    /\ pushes = 0
    /\ pops = 0
    /\ InitSeller
    /\ sVariant = "histogram"
    /\ InitBuyer
    /\ InitDash

\* the counts and steps drawn where only the histogram's length matters
HistCounts == {0, 1}

\* the writers and the reader of acme:histogram
NextHist ==
    \/ \E n \in HistCounts : SellerTick(n)
    \/ \E ok \in BOOLEAN : sellPush(ok)
    \/ \E ok \in BOOLEAN : sellHistPush(ok)
    \/ \E ok \in BOOLEAN : sellTrim(ok)
    \/ generate(FlatDraws)
    \/ \E inId \in NoId, now \in Instant, ok \in BOOLEAN : ServeHTTP("/histogram", inId, now, ok)

SpecHist == InitHist /\ [][NextHist]_vars

\* createDatapoint on its own: the seeds a random walk from SeedBase passes
\* through, one tick left to take, every outcome of the eight draws
SeedInts == {0 - MaxDiv, 0 - 1, 0, 1, MaxDiv - 1, SeedBase - 1, SeedBase, LowStart}

InitDatapoint ==
    /\ InitStore
    /\ InitSeller
    /\ sVariant = "histogram"
    /\ InitBuyer
    /\ InitLife
    /\ seed \in {k * Scale + f : k \in SeedInts, f \in 0 .. Scale - 1}
    /\ gTicks = MaxGenTicks - 1
    /\ gErr = FALSE
    /\ dp = <<>>
    /\ gPrev = 0

NextDatapoint ==
    generate(Draws)

SpecDatapoint == InitDatapoint /\ [][NextDatapoint]_vars

\* the paths requested, the X-Request-Id headers the requests carry ("" for
\* none) and the values of time.Now().UnixNano() when they arrive
Paths == {"/", "/size", "/histogram", "/healthz"}

RequestIds == {"", "abc", "7"}

Nanos == {7, 8}

\* the Dashboard serving requests on every route while the generator runs
NextTrace ==
    \/ mainSetHealthy
    \/ \E ok \in BOOLEAN : mainListen(ok)
    \/ generate(FlatDraws)
    \/ \E path \in Paths, inId \in RequestIds, now \in Nanos, ok \in BOOLEAN :
          ServeHTTP(path, inId, now, ok)

\* one Dashboard, its seed SeedBase, beside an idle Seller
InitTrace ==
    /\ Init
    /\ sVariant = "histogram"
    /\ seed = SeedBase * Scale

SpecTrace == InitTrace /\ [][NextTrace]_vars

\* the generator over several ticks from its first seed: each draw a step
\* of 0 or the widest step up or down
StepDraws == {<<1, 0>>, <<1, MaxDiv - 1>>, <<-1, MaxDiv - 1>>}

InitSeries ==
    /\ Init
    /\ sVariant = "histogram"

NextSeries ==
    generate(StepDraws)

SpecSeries == InitSeries /\ [][NextSeries]_vars

\* ------------------------------------------------------------------ claims

\* C1: a Seller tick (histogram variant) whose store operations all succeed
\* has pushed exactly count entries onto the queue and exactly one entry,
\* of value count, onto the histogram; with count = 0 too.
C1_SellPushesCountAndRecordsIt ==
    (sVariant = "histogram" /\ sPc = "select" /\ 0 < sTicks /\ ~sErr)
        => /\ pushes - sBase = sCount
           /\ Len(queue) = pushes
           /\ sRec = <<sCount>>
           /\ hist # <<>> /\ Head(hist) = Itoa(sCount)

\* C1 witness: a second tick drew 0 after a first drew 9; it pushed nothing
\* onto the queue and still recorded 0
C1_Witness ==
    /\ sVariant = "histogram" /\ sPc = "select" /\ sTicks = 2 /\ ~sErr
    /\ sCount = 0 /\ sBase = 9 /\ pushes = 9 /\ sRec = <<0>> /\ hist = <<Itoa(0), Itoa(9)>>

\* C4 as stated: an empty-queue tick only reports "Nothing to buy", leaves
\* the queue empty and the Buyer in its loop, and every tick on a non-empty
\* queue pops exactly one entry.
C4_AsStated ==
    [][\A ok \in BOOLEAN : buy(ok) =>
          IF queue = <<>>
          THEN /\ queue' = <<>> /\ bSaid' = "Nothing to buy"
               /\ bPc' = "select" /\ bExit' = -1
          ELSE Len(queue') = Len(queue) - 1]_vars

\* C4 amended: as stated, but a tick on a non-empty queue pops exactly one
\* entry when its LPop succeeds; when the LPop fails it pops none and is
\* reported as "Nothing to buy" as well. The Buyer never leaves its loop.
C4_EmptyPopIsNotFatal ==
    /\ [][\A ok \in BOOLEAN : buy(ok) =>
             /\ bPc' = "select" /\ bExit' = -1
             /\ IF queue = <<>> \/ ~ok
                THEN queue' = queue /\ pops' = pops /\ bSaid' = "Nothing to buy"
                ELSE /\ Len(queue') = Len(queue) - 1
                     /\ pops' = pops + 1 /\ bSaid' = "1"]_vars
    /\ [](bExit = -1 /\ bPc \in {"select", "lpop"})

\* C4 witness: the Buyer has ticked on a queue nothing was ever pushed onto,
\* and waits for its next tick
C4_Witness ==
    /\ pushes = 0 /\ 0 < bTicks /\ bSaid = "Nothing to buy"
    /\ bPc = "select" /\ bExit = -1 /\ queue = <<>>

\* C6 as stated: with no pop so far, /size yields the number of pushes
C6_AsStated ==
    [][\A ok \in BOOLEAN : (sizeRoute(ok) /\ pops = 0) => resp'.body = pushes]_vars

\* C6 amended: when the LLen read succeeds /size yields the queue's length,
\* which is the number of pushes when nothing was popped; when the read
\* fails it yields 0. /size never changes the queue.
C6_SizeIsQueueLength ==
    [][\A ok \in BOOLEAN : sizeRoute(ok) =>
          /\ queue' = queue
          /\ resp'.status = 200
          /\ resp'.body = (IF ok THEN pushes - pops ELSE 0)]_vars

\* C6 witness: three pushes, no pop, and /size answered 3
C6_Witness ==
    /\ pushes = 3 /\ pops = 0 /\ resp.route = "/size" /\ resp.body = 3

\* C2 as stated: whenever a Seller tick finishes, the histogram holds at
\* most 101 entries.
C2_AsStated ==
    [][(sPc # "select" /\ sPc' = "select") => Len(hist') <= TrimStop + 1]_vars

\* C2 amended: whenever a Seller tick finishes in which every store
\* operation succeeded, the histogram holds at most 101 entries, whatever
\* the generator and the /histogram readers did before or during the tick.
C2_TrimmedAfterCleanTick ==
    [][(sPc # "select" /\ sPc' = "select" /\ ~sErr') => Len(hist') <= TrimStop + 1]_vars

\* C2 witness: a clean tick has just cut the histogram down to 101: the
\* generator pushed before the Seller's record and again before its trim,
\* nothing was read, and at least 100 entries were there before
C2_Witness ==
    /\ sPc = "select" /\ sTicks = 1 /\ ~sErr /\ reads = 0 /\ gTicks = 2 /\ ~gErr
    /\ Len(hist) = TrimStop + 1
    /\ hist[1].kind = "array" /\ hist[2].kind = "number" /\ hist[3].kind = "array"

\* C3: every completed write to the histogram, the Seller's (record and
\* trim, all succeeding) or the generator's (a successful push), leaves at
\* most 101 entries.
C3_TrimmedAfterEveryWrite ==
    [][(\/ sPc = "trim" /\ sPc' = "select" /\ ~sErr'
        \/ gTicks' # gTicks /\ ~gErr')
          => Len(hist') <= TrimStop + 1]_vars

\* C5: /healthz answers 204 exactly when the flag is 1 and 503 otherwise;
\* once the shutdown goroutine has cleared the flag it is never 1 again and
\* every response is 503; no 204 follows a 503.
C5_FlagSetOnceClearedOnce ==
    /\ [][healthz => /\ resp'.status \in {204, 503}
                     /\ (resp'.status = 204 <=> healthy = 1)]_vars
    /\ [][hPc \notin {"wait", "clear"} => healthy' = 0]_vars
    /\ [][(healthz /\ hPc \notin {"wait", "clear"}) => resp'.status = 503]_vars
    /\ [][(healthz /\ resp.status = 503) => resp'.status = 503]_vars

\* C7: a datapoint created from seed S has open and close within
\* [S-4, S+4], high >= max(open, close) and low <= min(open, close).
C7_DatapointInRange ==
    dp # <<>> =>
        LET open == dp[2]
            close == dp[3]
            high == dp[4]
            low == dp[5]
        IN /\ gPrev - 4 * Scale <= open /\ open <= gPrev + 4 * Scale
           /\ gPrev - 4 * Scale <= close /\ close <= gPrev + 4 * Scale
           /\ Max2(open, close) <= high
           /\ low <= Min2(open, close)

\* C7 witness: from seed SeedBase, open at S-4 and close at S+4, so high is
\* close, and a third sample below open is the low
C7_Witness ==
    /\ dp # <<>> /\ gPrev = SeedBase * Scale
    /\ dp[2] = gPrev - 4 * Scale /\ dp[3] = gPrev + 4 * Scale
    /\ dp[4] = dp[3] /\ dp[5] < dp[2]

\* C8: a signal, interrupt or SIGTERM, that reaches the Dashboard while it
\* is Running is kept for the shutdown goroutine: it is in quit, from where
\* alone Draining starts. Neither kind is swallowed.
C8_SignalInRunningIsKept ==
    [][\A sig \in Signals :
          (DashSignal(sig) /\ dPc = "serving" /\ healthy = 1 /\ hPc = "wait")
              => 0 < quit']_vars

\* C9: when the Dashboard has ended after a signal (not by a failed
\* listen), it ended by main returning, with the flag cleared and the
\* listener shut down, not by an exit with status 1.
C9_SignalExitIsGraceful ==
    (dExit # -1 /\ dGot # {} /\ dExitBy # "listen")
        => (dExitBy = "main" /\ dExit = 0 /\ healthy = 0 /\ srv = "closed")

\* C10: once the Seller (the Buyer) has received a signal it starts no
\* further tick: it exits, wherever in its loop the signal arrived.
C10_SignalStopsTicks ==
    /\ [][sGot => sTicks' = sTicks]_vars
    /\ [][bGot => bTicks' = bTicks]_vars

\* C11: when the queue push number i+1 of a Seller tick with count N fails,
\* the tick ends there: the i entries already pushed stay on the queue, no
\* further push, no histogram record and no trim follow in that tick, the
\* Seller stays in its loop, and the next tick starts afresh (nothing is
\* retried) and, when it succeeds, pushes its own full count and record.
C11_PushFailureAbortsTick ==
    /\ [][sellPush(FALSE) =>
             /\ sI < sCount /\ pushes - sBase = sI
             /\ queue' = queue /\ pushes' = pushes /\ hist' = hist
             /\ sRec' = <<>> /\ sErr' /\ sPc' = "select" /\ sExit' = -1]_vars
    /\ []((sVariant = "histogram" /\ sPc = "select" /\ sErr /\ sI < sCount)
            => /\ Len(queue) = pushes /\ pushes - sBase = sI /\ sRec = <<>>
               /\ (sTicks < MaxSellTicks => ENABLED SellerTick(sCount)))
    /\ [][\A n \in Counts : (SellerTick(n) /\ sErr /\ sVariant = "histogram") =>
             /\ queue' = queue /\ hist' = hist /\ sBase' = pushes
             /\ sI' = 0 /\ sCount' = n /\ ~sErr']_vars
    /\ [][(sVariant = "histogram" /\ sPc # "select" /\ sPc' = "select" /\ ~sErr')
             => pushes' - sBase' = sCount' /\ sRec' = <<sCount'>>]_vars

\* C11 witness: after a clean tick of count 9, a tick of count 3 has failed
\* at its second push: one entry of it is on the queue, no record of it
C11_Witness ==
    /\ sVariant = "histogram" /\ sPc = "select" /\ sErr /\ sTicks = 2
    /\ sCount = 3 /\ sI = 1 /\ sBase = 9 /\ Len(queue) = 10
    /\ sRec = <<>> /\ hist = <<Itoa(9)>>

\* C12: when the histogram holds several datapoints pushed by the generator
\* (and nothing else), the entry a GET /histogram pops and returns is the
\* datapoint pushed last, the one at the head of the list.
C12_ReturnsNewestDatapoint ==
    [][(histogramRoute(TRUE) /\ 1 < Len(hist)
          /\ \A i \in 1 .. Len(hist) : hist[i].kind = "array")
         => (~resp'.null /\ resp'.day = Head(hist).val)]_vars

\* C13: every GET /histogram served while the histogram is non-empty (its
\* RPop succeeding) answers with a JSON array of 5 numbers, whatever the
\* Seller and the generator have pushed onto the list.
C13_NonEmptyReadIsDatapoint ==
    [][(histogramRoute(TRUE) /\ hist # <<>>)
         => (resp'.status = 200 /\ ~resp'.null /\ Len(resp'.day) = 5)]_vars

\* C14: every response carries a non-empty X-Request-Id; a request with a
\* non-empty X-Request-Id gets exactly that value back, any other a
\* generated non-empty one; and the access log line of the request shows the
\* same value, taken from the request's context.
C14_RequestIdEchoed ==
    /\ [](resp.route # "" => (xrid # "" /\ logged = xrid))
    /\ [][\A path \in Paths, inId \in RequestIds, now \in Nanos, ok \in BOOLEAN :
             ServeHTTP(path, inId, now, ok) =>
                /\ xrid' # ""
                /\ inId # "" => xrid' = inId
                /\ inId = "" => xrid' = nextRequestID(now)
                /\ logged' = xrid']_vars

\* C14 witness: a GET /histogram on the empty buffer carrying the id "abc"
\* was answered null under that id, and logged under it
C14_Witness ==
    /\ resp.route = "/histogram" /\ resp.null
    /\ xrid = "abc" /\ logged = "abc"

\* whether a list entry is a datapoint of the generator
IsDatapoint(e) == e.kind = "array"

\* the datapoints in list, from its head to its tail
Datapoints(list) == SelectSeq(list, IsDatapoint)

\* C15: the histogram is read first in, first out. Every write adds one
\* entry at the head and moves nothing; every removal, by a GET /histogram
\* or by a trim, takes entries from the tail only, the ones pushed first; a
\* GET consumes the entry at the tail and answers with what it decodes to;
\* so the datapoints lie in the list newest first, and successive GETs that
\* return datapoints return them in the order of their pushes.
C15_HistogramIsFifo ==
    /\ [](LET d == Datapoints(hist)
          IN \A i \in 1 .. Len(d) - 1 : d[i + 1].val[1] < d[i].val[1])
    /\ [][Len(hist) < Len(hist') =>
             (Len(hist') = Len(hist) + 1 /\ Tail(hist') = hist)]_vars
    /\ [][Len(hist') <= Len(hist) => hist' = SubSeq(hist, 1, Len(hist'))]_vars
    /\ [][(histogramRoute(TRUE) /\ hist # <<>>) =>
             /\ hist' = SubSeq(hist, 1, Len(hist) - 1)
             /\ resp'.null = Unmarshal(hist[Len(hist)]).null
             /\ resp'.day = Unmarshal(hist[Len(hist)]).day]_vars
    /\ [][(histogramRoute(TRUE) /\ resp.route = "/histogram"
             /\ ~resp.null /\ ~resp'.null) => resp.day[1] < resp'.day[1]]_vars

\* C15 witness: two datapoints were pushed and two GETs have been served;
\* the second returned the datapoint of the second tick, so the first had
\* returned the older one
C15_Witness ==
    /\ gTicks = 2 /\ reads = 2 /\ hist = <<>>
    /\ resp.route = "/histogram" /\ ~resp.null /\ resp.day[1] = 2

\* C16 as stated: every GET /histogram on a non-empty buffer removes exactly
\* one entry; one on an empty buffer leaves it empty, answers 200 and the
\* Dashboard runs on; two GETs never return the same datapoint.
C16_AsStated ==
    /\ [][\A ok \in BOOLEAN : histogramRoute(ok) =>
             /\ resp'.status = 200 /\ dExit' = -1
             /\ IF hist = <<>> THEN hist' = <<>>
                ELSE Len(hist') = Len(hist) - 1]_vars
    /\ [][\A ok \in BOOLEAN :
             (histogramRoute(ok) /\ resp.route = "/histogram" /\ ~resp.null /\ ~resp'.null)
                => resp'.day # resp.day]_vars

\* C16 amended: a GET /histogram on a non-empty buffer removes exactly one
\* entry, the one it decodes, when its RPop succeeds, and none when the RPop
\* fails (it then answers null); one on an empty buffer leaves it empty and
\* answers null; every GET answers 200 and the Dashboard runs on; the RPop
\* being one store command, two GETs never return the same datapoint.
C16_ReadIsDestructive ==
    /\ [][\A ok \in BOOLEAN : histogramRoute(ok) =>
             /\ resp'.status = 200 /\ dExit' = -1
             /\ IF hist = <<>> \/ ~ok
                THEN hist' = hist /\ resp'.null
                ELSE /\ Len(hist') = Len(hist) - 1
                     /\ hist' = RPop(hist)
                     /\ resp'.day = Unmarshal(hist[Len(hist)]).day]_vars
    /\ [][\A ok \in BOOLEAN :
             (histogramRoute(ok) /\ resp.route = "/histogram" /\ ~resp.null /\ ~resp'.null)
                => resp'.day # resp.day]_vars

\* C16 witness: the one datapoint ever pushed was consumed by a first GET,
\* and a second GET, on the empty buffer, was answered 200 and null
C16_Witness ==
    /\ sTicks = 0 /\ gTicks = 1 /\ ~gErr /\ reads = 2 /\ hist = <<>>
    /\ resp.route = "/histogram" /\ resp.status = 200 /\ resp.null /\ dExit = -1

\* C17: in every datapoint there is one third sample x, a random step away
\* from open, such that high = max(open, close, x) and low = min(open,
\* close, x): high and low are taken over the same three values.
C17_HighLowOfSameSample ==
    dp # <<>> =>
        LET open == dp[2]
            close == dp[3]
            high == dp[4]
            low == dp[5]
        IN \E r \in Draws :
              LET x == getValue(open, r)
              IN /\ high = Max2(Max2(open, close), x)
                 /\ low = Min2(Min2(open, close), x)

\* b lies within d of a
Within(a, b, d) == a - d <= b /\ b <= a + d

\* C18: after every generator tick the seed is that tick's close, whether
\* its push went through or not; so the open and the close of each tick are
\* within 4 of the seed it started from, which is the close of the tick
\* before it.
C18_SeedIsLastClose ==
    /\ [](dp # <<>> => seed = dp[3])
    /\ [][gTicks' # gTicks =>
             /\ seed' = dp'[3]
             /\ Within(seed, dp'[2], 4 * Scale) /\ Within(seed, dp'[3], 4 * Scale)
             /\ dp # <<>> => /\ Within(dp[3], dp'[2], 4 * Scale)
                             /\ Within(dp[3], dp'[3], 4 * Scale)]_vars

\* C18 witness: two ticks whose pushes both failed, each closing 4 above its
\* seed: the seed has moved up by 8 all the same, and the second open is 4
\* below the first close
C18_Witness ==
    /\ gTicks = 2 /\ gErr /\ hist = <<>> /\ dp # <<>>
    /\ seed = dp[3] /\ gPrev = seed - 4 * Scale
    /\ seed \in {(SeedBase + 8) * Scale + f : f \in 0 .. Scale - 1}
    /\ dp[2] = gPrev - 4 * Scale

\* C19 as stated: the queue's length is always the successful pushes minus
\* the successful pops, never negative; a Buyer tick removes exactly one
\* entry from a non-empty queue and none from an empty one; only the Seller
\* adds entries, only the Buyer removes them, and no step of the Buyer
\* touches the histogram.
C19_AsStated ==
    /\ [](Len(queue) = pushes - pops /\ pops <= pushes)
    /\ [][\A ok \in BOOLEAN : buy(ok) =>
             IF queue = <<>> THEN queue' = <<>>
             ELSE Len(queue') = Len(queue) - 1]_vars
    /\ [][Len(queue) < Len(queue') =>
             (Len(queue') = Len(queue) + 1 /\ (sellSimple(TRUE) \/ sellPush(TRUE)))]_vars
    /\ [][Len(queue') < Len(queue) =>
             (Len(queue') = Len(queue) - 1 /\ buy(TRUE))]_vars
    /\ [][(BuyerTick \/ \E ok \in BOOLEAN : buy(ok)) => hist' = hist]_vars

\* C19 amended: as stated, but a Buyer tick removes exactly one entry from a
\* non-empty queue when its LPop succeeds, and none when the LPop fails or
\* the queue is empty; what the tick does is fixed by the queue and that
\* outcome alone.
C19_QueueConserved ==
    /\ [](Len(queue) = pushes - pops /\ pops <= pushes)
    /\ [][\A ok \in BOOLEAN : buy(ok) =>
             IF queue = <<>> \/ ~ok
             THEN queue' = queue /\ pops' = pops /\ bSaid' = "Nothing to buy"
             ELSE Len(queue') = Len(queue) - 1 /\ pops' = pops + 1]_vars
    /\ [][Len(queue) < Len(queue') =>
             (Len(queue') = Len(queue) + 1 /\ (sellSimple(TRUE) \/ sellPush(TRUE)))]_vars
    /\ [][Len(queue') < Len(queue) =>
             (Len(queue') = Len(queue) - 1 /\ buy(TRUE))]_vars
    /\ [][(BuyerTick \/ \E ok \in BOOLEAN : buy(ok)) => hist' = hist]_vars

\* C19 witness: three entries pushed by two ticks, the second failing at its
\* second push, a record written, two entries popped by the Buyer's two
\* ticks, and /size has answered 1
C19_Witness ==
    /\ pushes = 3 /\ pops = 2 /\ Len(queue) = 1 /\ sErr /\ bTicks = 2 /\ bPc = "select"
    /\ hist # <<>> /\ resp.route = "/size" /\ resp.body = 1

====
